---------------------------- MODULE Spec2Model ----------------------------
(***************************************************************************)
(* A model of cmb_beams/detector.py: the Beam class (resolution            *)
(* parameters, the lazily computed blm array, ghosts).                     *)
(*                                                                         *)
(* Beam objects live in the sequence `beams` (an object is its index);     *)
(* blm arrays live in the sequence `heap` (an array is its index, so two   *)
(* beams hold the same array object iff they hold the same index).         *)
(* An attribute that may be absent (AttributeError on read) is an option:  *)
(* None or Some(v).  A Python None argument is None as well.               *)
(* A fwhm is a rational <<num, den>> in arcmin.                            *)
(***************************************************************************)
EXTENDS Integers, Sequences, FiniteSets, TLC

VARIABLES beams, heap, last

vars == <<beams, heap, last>>

-----------------------------------------------------------------------------
(* Bounds of the model.                                                    *)

\* Beam objects constructed in one run (directly or by create_ghost).
MaxBeams == 3
\* blm arrays allocated in one run.
MaxArrays == 2
\* lmax / mmax values the client passes range over -1 .. MaxL.
MaxL == 2
\* In-place edits the client makes to one array.
MaxEdits == 1

-----------------------------------------------------------------------------
(* Values.                                                                 *)

None == <<>>
Some(v) == <<v>>
Get(o) == o[1]

Abs(i) == IF i < 0 THEN -i ELSE i
Max(a, b) == IF a >= b THEN a ELSE b
Min(a, b) == IF a <= b THEN a ELSE b

RECURSIVE Gcd(_, _)
Gcd(a, b) == IF b = 0 THEN a ELSE Gcd(b, a % b)

\* The rational n/d (d > 0) in lowest terms.
Rat(n, d) == LET g == Gcd(Abs(n), d) IN <<n \div g, d \div g>>

\* 1.4 * 2 * pi radians, converted to degrees and times 60: in arcmin.
NyquistArcmin == (14 * 360 * 60) \div 10

\* int(2 * pi / radians(fwhm / 60.) * 1.4) for a positive fwhm = <<n, d>>.
LmaxFromFwhm(fwhm) == (NyquistArcmin * fwhm[2]) \div fwhm[1]

\* degrees(1.4 * 2 * pi / lmax) * 60 for lmax # 0.
FwhmFromLmax(lmax) == Rat(NyquistArcmin, lmax)

Ok(v) == [err |-> "none", val |-> v]
Raise(e) == [err |-> e, val |-> None]

BTypes == {"Gaussian", "PO", "EG", "Gaussian_map"}

\* The keyword defaults of Beam.__init__.
CtorDefaults ==
    [az |-> 0, el |-> 0, polang |-> 0, pol |-> "A",
     btype |-> "Gaussian", fwhm |-> None, lmax |-> Some(700), mmax |-> None,
     dead |-> FALSE, ghost |-> FALSE, amplitude |-> 1,
     po_file |-> None, eg_file |-> None, cross_pol_file |-> None]

\* The keywords Beam.__init__ accepts.
CtorKeys == DOMAIN CtorDefaults \cup {"name"}

-----------------------------------------------------------------------------
(* The property setters, as functions of the written value.                *)

\* lmax.setter: `val is None and fwhm` reads the name fwhm, which is bound
\* nowhere (neither local nor global), so a None value raises NameError;
\* any other value is stored as max(val, 0).
LmaxSet(val) ==
    IF val = None THEN Raise("NameError") ELSE Ok(Max(Get(val), 0))

\* mmax.setter: min over the non-None values of [mmax, self.lmax].
MmaxSet(mmax, lmax) ==
    IF mmax = None THEN lmax ELSE Min(Get(mmax), lmax)

\* `not val` for a fwhm argument: None and 0 are falsy.
Falsy(val) == val = None \/ Get(val)[1] = 0

\* fwhm.setter: derives from lmax when val is falsy and lmax is non-zero;
\* otherwise np.abs(val), which raises TypeError on None.
FwhmSet(val, lmax) ==
    IF Falsy(val) /\ lmax # 0
    THEN Ok(FwhmFromLmax(lmax))
    ELSE IF val = None
         THEN Raise("TypeError")
         ELSE Ok(<<Abs(Get(val)[1]), Get(val)[2]>>)

-----------------------------------------------------------------------------
(* Beam.__init__.                                                          *)

\* The object Beam(**o) builds, or the error it raises.  A keyword the
\* signature does not have raises TypeError before the body runs.  The
\* dead setter runs before __ghosts exists, so it only stores the flag.
NewBeam(o) ==
    LET l == LmaxSet(o.lmax)
        m == MmaxSet(o.mmax, l.val)
        f == FwhmSet(o.fwhm, l.val)
    IN  IF ~(DOMAIN o \subseteq CtorKeys) THEN Raise("TypeError")
        ELSE IF l.err # "none" THEN Raise(l.err)
        ELSE IF f.err # "none" THEN Raise(f.err)
        ELSE Ok([ghost       |-> o.ghost,
                 az          |-> o.az,
                 el          |-> o.el,
                 polang      |-> o.polang,
                 pol         |-> o.pol,
                 po_file     |-> o.po_file,
                 eg_file     |-> o.eg_file,
                 cross_pol_file |-> o.cross_pol_file,
                 dead        |-> o.dead,
                 btype       |-> o.btype,
                 amplitude   |-> o.amplitude,
                 lmax        |-> l.val,
                 mmax        |-> m,
                 fwhm        |-> f.val,
                 blm         |-> None,
                 ghosts      |-> IF o.ghost THEN None ELSE Some(<<>>),
                 ghost_count |-> IF o.ghost THEN None ELSE Some(0),
                 ghost_idx   |-> IF o.ghost THEN Some(0) ELSE None])

Ids == 1 .. Len(beams)

\* `last` records the call just made: the method, the beam it was called
\* on, its arguments, the error it raised, the value it returned and the
\* beams whose generator or loader it invoked.  Two fields are history
\* only: `old` is the array delete_blm found cached, and `dropped` is, for
\* a blm read that directly follows a delete_blm on the same beam, the
\* array that delete_blm found.
NoOp == [op |-> "init", self |-> 0, partner |-> 0, args |-> None,
         err |-> "none", ret |-> None, gen |-> <<>>,
         old |-> None, dropped |-> None]

Init ==
    /\ beams = <<>>
    /\ heap = <<>>
    /\ last = NoOp

\* b = Beam(**kw): kw holds the keywords the caller supplies.
Construct(kw) ==
    LET r == NewBeam(kw @@ CtorDefaults) IN
    /\ beams' = IF r.err = "none" THEN Append(beams, r.val) ELSE beams
    /\ heap' = heap
    /\ last' = [NoOp EXCEPT !.op = "construct",
                            !.self = IF r.err = "none" THEN Len(beams) + 1 ELSE 0,
                            !.args = kw, !.err = r.err]


-----------------------------------------------------------------------------
(* Helpers on the object store.                                            *)

Range(s) == {s[i] : i \in DOMAIN s}

\* The outcome of a method call: the error raised ("none" if it returned),
\* the stores it leaves, the value returned and the beams whose generator
\* or loader (tools.gauss_blm / np.load) it invoked, in order.
Outcome(e, bs, hp, r, g) ==
    [err |-> e, beams |-> bs, heap |-> hp, ret |-> r, gen |-> g]

-----------------------------------------------------------------------------
(* dead.setter.                                                            *)

\* As DeadSet without the loop over the ghosts.
DeadSetOwnOnly(bs, b, v) ==
    [bs EXCEPT ![b].dead = v]

\* Stores the flag, then writes it into every ghost's __dead directly;
\* reading self.ghosts on a ghost raises AttributeError, which is caught.
DeadSet(bs, b, v) ==
    IF bs[b].ghosts = None
    THEN [bs EXCEPT ![b].dead = v]
    ELSE [i \in DOMAIN bs |->
            IF i = b \/ i \in Range(Get(bs[b].ghosts))
            THEN [bs[i] EXCEPT !.dead = v]
            ELSE bs[i]]

\* b.dead = v
SetDead(b, v) ==
    /\ beams' = DeadSet(beams, b, v)
    /\ heap' = heap
    /\ last' = [NoOp EXCEPT !.op = "set_dead", !.self = b, !.args = Some(v)]

-----------------------------------------------------------------------------
(* ghost_count.setter and ghost_idx.setter.                                *)

\* As GhostCountSet without the test of self.ghost.
GhostCountSetUnguarded(bs, b, count) ==
    [err |-> "none", beams |-> [bs EXCEPT ![b].ghost_count = Some(count)]]

\* ghost_count.setter: stores the count on a beam that is no ghost; on a
\* ghost the raise statement names ValueErrror, which is bound nowhere, so
\* the error that reaches the caller is NameError.
GhostCountSet(bs, b, count) ==
    IF ~bs[b].ghost
    THEN [err |-> "none", beams |-> [bs EXCEPT ![b].ghost_count = Some(count)]]
    ELSE [err |-> "NameError", beams |-> bs]

\* ghost_idx.setter: stores the index on a ghost, raises ValueError on a
\* beam that is no ghost.
GhostIdxSet(bs, b, val) ==
    IF bs[b].ghost
    THEN [err |-> "none", beams |-> [bs EXCEPT ![b].ghost_idx = Some(val)]]
    ELSE [err |-> "ValueError", beams |-> bs]

-----------------------------------------------------------------------------
(* create_ghost.                                                           *)

\* The options create_ghost copies from the parent.
ParentOpts(p) ==
    [az |-> p.az, el |-> p.el, polang |-> p.polang, pol |-> p.pol,
     btype |-> p.btype, fwhm |-> Some(p.fwhm), dead |-> p.dead,
     lmax |-> Some(p.lmax), mmax |-> Some(p.mmax)]

\* ghost_opts after both update() calls, completed by the constructor's
\* defaults for the keywords create_ghost does not pass.
GhostOpts(p, kw) ==
    [ghost |-> TRUE] @@ kw @@ ParentOpts(p) @@ CtorDefaults

\* As Attach with the counter incremented before ghost_idx is assigned.
AttachIdxAfterIncrement(bs, b, g) ==
    LET n == Len(bs) + 1
        child == [g EXCEPT !.ghost_idx = Some(Get(bs[b].ghost_count) + 1)]
    IN  Append([bs EXCEPT ![b].ghost_count = Some(Get(@) + 1),
                          ![b].ghosts = Some(Append(Get(@), n))],
               child)

\* The store after a successful create_ghost: ghost.ghost_idx takes the
\* parent's ghost_count, which is then incremented, and the ghost is
\* appended to the parent's list.
Attach(bs, b, g) ==
    LET n == Len(bs) + 1
        child == [g EXCEPT !.ghost_idx = bs[b].ghost_count]
    IN  Append([bs EXCEPT ![b].ghost_count = Some(Get(@) + 1),
                          ![b].ghosts = Some(Append(Get(@), n))],
               child)

\* As CreateGhostOp without the guard of lines 321-322: a ghost then
\* acquires a list and a counter of its own.
CreateGhostUnguarded(bs, b, kw) ==
    LET r == NewBeam(GhostOpts(bs[b], kw))
        own == IF bs[b].ghost
               THEN [bs EXCEPT ![b].ghosts = Some(<<>>),
                               ![b].ghost_count = Some(0)]
               ELSE bs
    IN  IF r.err # "none" THEN Outcome(r.err, bs, heap, None, <<>>)
        ELSE Outcome("none", Attach(own, b, r.val), heap, None, <<>>)

\* As CreateGhostOp with ghost_count incremented before the ghost is
\* constructed.
CreateGhostCountFirst(bs, b, kw) ==
    IF bs[b].ghost THEN Outcome("RuntimeError", bs, heap, None, <<>>)
    ELSE LET r == NewBeam(GhostOpts(bs[b], kw))
             bs1 == [bs EXCEPT ![b].ghost_count = Some(Get(@) + 1)]
         IN
         IF r.err # "none" THEN Outcome(r.err, bs1, heap, None, <<>>)
         ELSE Outcome("none", Attach(bs, b, r.val), heap, None, <<>>)

\* create_ghost: refuses a ghost; builds Beam(**ghost_opts), and only when
\* that has returned sets the ghost's index, increments the counter and
\* appends the ghost.
CreateGhostOp(bs, b, kw) ==
    IF bs[b].ghost THEN Outcome("RuntimeError", bs, heap, None, <<>>)
    ELSE LET r == NewBeam(GhostOpts(bs[b], kw)) IN
         IF r.err # "none" THEN Outcome(r.err, bs, heap, None, <<>>)
         ELSE Outcome("none", Attach(bs, b, r.val), heap, None, <<>>)

\* b.create_ghost(**kw)
CreateGhost(b, kw) ==
    LET r == CreateGhostOp(beams, b, kw) IN
    /\ beams' = r.beams
    /\ heap' = heap
    /\ last' = [NoOp EXCEPT !.op = "create_ghost", !.self = b, !.args = kw,
                            !.err = r.err]

-----------------------------------------------------------------------------
(* The blm property and the methods that fill the cache.                   *)

\* A freshly allocated array: what it was made from, the amplitude it was
\* scaled by, and the number of in-place edits made to it since.
NewArray(kind, amp) == [kind |-> kind, amplitude |-> amp, edits |-> 0]

\* blm.setter: self.__blm = val, val an array object.
BlmSet(bs, b, a) == [bs EXCEPT ![b].blm = Some(a)]

\* gen_gaussian_blm: tools.gauss_blm builds a new array, scaled by
\* amplitude; btype becomes 'Gaussian' and the array is cached.
GenGaussianOp(bs, hp, b) ==
    LET a == Len(hp) + 1 IN
    Outcome("none",
            BlmSet([bs EXCEPT ![b].btype = "Gaussian"], b, a),
            Append(hp, NewArray("Gaussian", bs[b].amplitude)),
            None, <<b>>)

\* load_blm(filename, cross_pol_file): np.load reads a new array from the
\* file, which is scaled by amplitude and cached; a cross_pol_file raises.
\* `file` names the file read.  np.load is an external collaborator: the
\* file is taken to hold an array.
LoadOp(bs, hp, b, file, cross) ==
    IF cross THEN Outcome("NotImplementedError", bs, hp, None, <<>>)
    ELSE LET a == Len(hp) + 1 IN
         Outcome("none", BlmSet(bs, b, a),
                 Append(hp, NewArray(file, bs[b].amplitude)), None, <<b>>)

\* As BlmGetOp with the cache ignored: every read recomputes.
BlmGetNoCache(bs, hp, b) ==
    LET r == IF bs[b].btype = "Gaussian" THEN GenGaussianOp(bs, hp, b)
             ELSE IF bs[b].btype \in {"PO", "EG"}
                  THEN LoadOp(bs, hp, b, bs[b].btype, FALSE)
                  ELSE Outcome("ValueError", bs, hp, None, <<>>)
    IN  IF r.err # "none" THEN r
        ELSE [r EXCEPT !.ret = r.beams[b].blm]

\* blm getter: the cached array if there is one; otherwise generate or
\* load by btype (po_file for 'PO', eg_file for 'EG'), cache and return;
\* any other btype raises ValueError.
BlmGetOp(bs, hp, b) ==
    IF bs[b].blm # None
    THEN Outcome("none", bs, hp, bs[b].blm, <<>>)
    ELSE LET r == IF bs[b].btype = "Gaussian" THEN GenGaussianOp(bs, hp, b)
                  ELSE IF bs[b].btype = "PO" THEN LoadOp(bs, hp, b, "PO", FALSE)
                  ELSE IF bs[b].btype = "EG" THEN LoadOp(bs, hp, b, "EG", FALSE)
                  ELSE Outcome("ValueError", bs, hp, None, <<>>)
         IN  IF r.err # "none" THEN r
             ELSE [r EXCEPT !.ret = r.beams[b].blm]

\* As BlmDelOp when deleting with nothing cached is swallowed.
BlmDelSilentOp(bs, hp, b) ==
    Outcome("none", [bs EXCEPT ![b].blm = None], hp, None, <<>>)

\* blm.deleter: del self.__blm raises AttributeError when nothing is cached.
BlmDelOp(bs, hp, b) ==
    IF bs[b].blm = None
    THEN Outcome("AttributeError", bs, hp, None, <<>>)
    ELSE Outcome("none", [bs EXCEPT ![b].blm = None], hp, None, <<>>)

\* The step a method call with outcome r makes.
Step(name, b, p, args, r) ==
    /\ Len(r.heap) <= MaxArrays
    /\ beams' = r.beams
    /\ heap' = r.heap
    /\ last' = [op |-> name, self |-> b, partner |-> p, args |-> args,
                err |-> r.err, ret |-> r.ret, gen |-> r.gen,
                old |-> IF name = "delete_blm" THEN beams[b].blm ELSE None,
                dropped |-> IF name = "blm_get" /\ last.op = "delete_blm"
                                              /\ last.self = b
                            THEN last.old ELSE None]

\* x = b.blm
ReadBlm(b) == Step("blm_get", b, 0, None, BlmGetOp(beams, heap, b))

\* b.blm = a, for an array a the client holds.
WriteBlm(b, a) ==
    Step("blm_set", b, 0, Some(a), Outcome("none", BlmSet(beams, b, a), heap, None, <<>>))

\* del b.blm
DelBlm(b) == Step("blm_del", b, 0, None, BlmDelOp(beams, heap, b))

\* b.gen_gaussian_blm()
GenGaussianBlm(b) == Step("gen_gaussian_blm", b, 0, None, GenGaussianOp(beams, heap, b))

\* b.load_blm(file, cross_pol_file)
LoadBlm(b, file, cross) ==
    Step("load_blm", b, 0, Some(file), LoadOp(beams, heap, b, file, cross))

\* As SetBtype when the write also drops the cached array.
SetBtypeInvalidating(b, t) ==
    Step("set_btype", b, 0, Some(t),
         Outcome("none", [beams EXCEPT ![b].btype = t, ![b].blm = None],
                 heap, None, <<>>))

\* b.btype = t
SetBtype(b, t) ==
    Step("set_btype", b, 0, Some(t),
         Outcome("none", [beams EXCEPT ![b].btype = t], heap, None, <<>>))

\* The client edits in place the array it got from b.blm (b.blm *= 2):
\* a read of b.blm, then a change of that array's contents.
EditBlm(b) ==
    LET r == BlmGetOp(beams, heap, b) IN
    /\ r.err = "none"
    /\ r.heap[Get(r.ret)].edits < MaxEdits
    /\ Step("edit", b, 0, None,
            [r EXCEPT !.heap = [r.heap EXCEPT ![Get(r.ret)].edits = @ + 1]])

-----------------------------------------------------------------------------
(* Writes to the resolution parameters after construction.                 *)

\* b.lmax = val: stores max(val, 0) and touches nothing else.
SetLmax(b, val) ==
    LET r == LmaxSet(val) IN
    Step("set_lmax", b, 0, val,
         Outcome(r.err,
                 IF r.err = "none" THEN [beams EXCEPT ![b].lmax = r.val] ELSE beams,
                 heap, None, <<>>))

\* b.mmax = val
SetMmax(b, val) ==
    Step("set_mmax", b, 0, val,
         Outcome("none", [beams EXCEPT ![b].mmax = MmaxSet(val, beams[b].lmax)],
                 heap, None, <<>>))

\* b.ghost_count = count
SetGhostCount(b, count) ==
    LET r == GhostCountSet(beams, b, count) IN
    Step("set_ghost_count", b, 0, Some(count),
         Outcome(r.err, r.beams, heap, None, <<>>))

\* b.ghost_idx = val
SetGhostIdx(b, val) ==
    LET r == GhostIdxSet(beams, b, val) IN
    Step("set_ghost_idx", b, 0, Some(val),
         Outcome(r.err, r.beams, heap, None, <<>>))

-----------------------------------------------------------------------------
(* reuse_blm.                                                              *)

\* The assignments of lines 374-378, given the outcome r of reading
\* partner.blm: each goes through the property setter of self.
CopyFrom(r, b, p) ==
    LET src == r.beams[p]
        l == LmaxSet(Some(src.lmax)).val
    IN  [r.beams EXCEPT ![b].blm = r.ret,
                        ![b].btype = src.btype,
                        ![b].lmax = l,
                        ![b].mmax = MmaxSet(Some(src.mmax), l),
                        ![b].amplitude = src.amplitude]

\* As ReuseOp when self gets a copy of the partner's array instead of a
\* reference to it.
ReuseCopyOp(bs, hp, b, p) ==
    IF p = 0 THEN Outcome("TypeError", bs, hp, None, <<>>)
    ELSE LET bs1 == IF bs[p].ghost /\ bs[b].ghost
                    THEN [bs EXCEPT ![b].ghost_idx = bs[p].ghost_idx]
                    ELSE bs
             r == BlmGetOp(bs1, hp, p)
         IN
         IF r.err # "none" THEN Outcome(r.err, r.beams, r.heap, None, r.gen)
         ELSE LET a == Len(r.heap) + 1
                  c == [r EXCEPT !.heap = Append(r.heap, r.heap[Get(r.ret)]),
                                 !.ret = Some(a)]
              IN  Outcome("none", CopyFrom(c, b, p), c.heap, None, r.gen)

\* self.reuse_blm(partner); partner 0 stands for an object that is no Beam.
\* When both are ghosts self takes the partner's ghost_idx first; then
\* partner.blm is read (generating it if the partner has none) and the
\* array reference, btype, lmax, mmax and amplitude are assigned to self.
ReuseOp(bs, hp, b, p) ==
    IF p = 0 THEN Outcome("TypeError", bs, hp, None, <<>>)
    ELSE LET bs1 == IF bs[p].ghost /\ bs[b].ghost
                    THEN [bs EXCEPT ![b].ghost_idx = bs[p].ghost_idx]
                    ELSE bs
             r == BlmGetOp(bs1, hp, p)
         IN  IF r.err # "none" THEN Outcome(r.err, r.beams, r.heap, None, r.gen)
             ELSE Outcome("none", CopyFrom(r, b, p), r.heap, None, r.gen)

\* b.reuse_blm(p)
ReuseBlm(b, p) == Step("reuse_blm", b, p, None, ReuseOp(beams, heap, b, p))

-----------------------------------------------------------------------------
(* delete_blm.                                                             *)

\* As DeleteOp when the beam's own array is left in place and only the
\* ghosts' arrays are deleted.
DeleteGhostsOnlyOp(bs, hp, b, del_ghosts_blm) ==
    IF bs[b].ghosts = None
    THEN Outcome("AttributeError", bs, hp, None, <<>>)
    ELSE IF Len(Get(bs[b].ghosts)) > 0 /\ del_ghosts_blm
         THEN Outcome("none",
                      [i \in DOMAIN bs |->
                          IF i \in Range(Get(bs[b].ghosts))
                          THEN [bs[i] EXCEPT !.blm = None]
                          ELSE bs[i]],
                      hp, None, <<>>)
         ELSE Outcome("none", bs, hp, None, <<>>)

\* del self.blm with the AttributeError swallowed; then self.ghosts is
\* read, which raises AttributeError on a ghost; then, if the list is not
\* empty and del_ghosts_blm is set, each ghost's blm is deleted likewise.
DeleteOp(bs, hp, b, del_ghosts_blm) ==
    LET bs1 == [bs EXCEPT ![b].blm = None] IN
    IF bs1[b].ghosts = None
    THEN Outcome("AttributeError", bs1, hp, None, <<>>)
    ELSE IF Len(Get(bs1[b].ghosts)) > 0 /\ del_ghosts_blm
         THEN Outcome("none",
                      [i \in DOMAIN bs1 |->
                          IF i \in Range(Get(bs1[b].ghosts))
                          THEN [bs1[i] EXCEPT !.blm = None]
                          ELSE bs1[i]],
                      hp, None, <<>>)
         ELSE Outcome("none", bs1, hp, None, <<>>)

\* b.delete_blm(del_ghosts_blm)
DeleteBlm(b, del_ghosts_blm) ==
    Step("delete_blm", b, 0, Some(del_ghosts_blm),
         DeleteOp(beams, heap, b, del_ghosts_blm))

-----------------------------------------------------------------------------
(* Detector.__init__.                                                      *)

\* The keyword defaults of Detector.__init__.  Powers (pW), oe and bw are
\* in tenths, so that oe * (P_atm + P_cmb + P_opt) is in hundredths of pW.
DetectorDefaults ==
    [pol |-> TRUE, single_moded |-> TRUE, nu |-> 100, bw |-> 3, oe |-> 4,
     fwhm |-> 43, NEP_phonon |-> 6, NEP_readout |-> 3, NEP_photon |-> None,
     P_opt |-> 0, P_atm |-> None, P_cmb |-> 3,
     site_dir |-> "old_profiles/", site |-> None]

\* The object Detector(**o) builds, or the error it raises.  The module
\* binds none of the names pi, c, site_loading, dqdt and hg that the body
\* reads: env.bound tells whether the embedding program has put them into
\* the module's namespace, and when it has not, line 469 raises NameError.
\* env.loading is what site_loading returns.  self.P_atm is assigned only
\* under `site is not None`, so without a site line 489 reads an attribute
\* that does not exist.  The optical figures and the NEPs are real-valued
\* functions of the fields below and are not represented.
NewDetector(env, o) ==
    IF ~env.bound THEN Raise("NameError")
    ELSE IF o.site = None /\ o.P_atm = None THEN Raise("ValueError")
    ELSE IF o.site = None THEN Raise("AttributeError")
    ELSE Ok([pol |-> o.pol, polfact |-> IF o.pol THEN 1 ELSE 2,
             nu |-> o.nu, bw |-> o.bw, oe |-> o.oe, fwhm |-> o.fwhm,
             P_opt |-> o.P_opt, P_cmb |-> o.P_cmb,
             site_dir |-> o.site_dir, site |-> o.site,
             P_atm |-> env.loading,
             P_photon |-> o.oe * (env.loading + o.P_cmb + o.P_opt),
             NEP_phonon |-> o.NEP_phonon, NEP_readout |-> o.NEP_readout])

\* d = Detector(...), in the environment env; o holds every parameter as
\* the call binds it (the keywords given, the defaults for the others);
\* the new object is the value returned.
ConstructDetector(env, o) ==
    LET r == NewDetector(env, o) IN
    /\ beams' = beams
    /\ heap' = heap
    /\ last' = [NoOp EXCEPT !.op = "detector", !.args = o, !.err = r.err,
                            !.ret = IF r.err = "none" THEN Some(r.val) ELSE None]

-----------------------------------------------------------------------------
(* Specifications.  Each draws the client's calls from small sets.        *)

NoKw == [k \in {} |-> None]

LmaxArgs == {None} \cup {Some(l) : l \in -1 .. MaxL}
MmaxArgs == {None} \cup {Some(m) : m \in 0 .. MaxL}
FwhmArgs == {None, Some(<<43, 1>>)}

\* Ghosts and the dead flag: beams of the default resolution.
GhostKw == {NoKw, [dead |-> TRUE], [dead |-> FALSE]}

\* Room for one more Beam object within the bound n.
Room(n) == Len(beams) < n

NextGhost ==
    \/ /\ Room(MaxBeams)
       /\ \E d \in BOOLEAN, g \in BOOLEAN : Construct([dead |-> d, ghost |-> g])
    \/ /\ Room(MaxBeams)
       /\ \E b \in Ids, kw \in GhostKw : CreateGhost(b, kw)
    \/ \E b \in Ids, v \in BOOLEAN : SetDead(b, v)
    \/ \E b \in Ids, p \in Ids \cup {0} : ReuseBlm(b, p)
    \/ \E b \in Ids, f \in BOOLEAN : DeleteBlm(b, f)

SpecGhost == Init /\ [][NextGhost]_vars

\* Resolution parameters: construction from lmax / mmax / fwhm, later
\* writes, and the two methods that copy them between beams.
MaxResBeams == 2

ResKw == {NoKw} \cup {[lmax |-> Some(l)] : l \in 0 .. MaxL}
              \cup {[mmax |-> m] : m \in MmaxArgs}

NextRes ==
    \/ /\ Room(MaxResBeams)
       /\ \E l \in LmaxArgs, m \in MmaxArgs, f \in FwhmArgs, a \in 1 .. 2 :
             Construct([lmax |-> l, mmax |-> m, fwhm |-> f, amplitude |-> a])
    \/ /\ Room(MaxResBeams)
       /\ \E b \in Ids, kw \in ResKw : CreateGhost(b, kw)
    \/ \E b \in Ids, l \in LmaxArgs : SetLmax(b, l)
    \/ \E b \in Ids, m \in MmaxArgs : SetMmax(b, m)
    \/ \E b \in Ids, p \in Ids : ReuseBlm(b, p)

SpecRes == Init /\ [][NextRes]_vars

\* The blm cache: reads, writes, invalidation, generation, loading, reuse
\* and in-place edits, on beams of every btype.
MaxBlmBeams == 2

Arrays == 1 .. Len(heap)

NextBlm ==
    \/ /\ Room(MaxBlmBeams)
       /\ \E t \in BTypes, g \in BOOLEAN : Construct([btype |-> t, ghost |-> g])
    \/ \E b \in Ids : ReadBlm(b)
    \/ \E b \in Ids, a \in Arrays : WriteBlm(b, a)
    \/ \E b \in Ids : DelBlm(b)
    \/ \E b \in Ids : GenGaussianBlm(b)
    \/ \E b \in Ids, c \in BOOLEAN : LoadBlm(b, "PO", c)
    \/ \E b \in Ids, t \in {"Gaussian", "PO", "Gaussian_map"} : SetBtype(b, t)
    \/ \E b \in Ids, p \in Ids \cup {0} : ReuseBlm(b, p)
    \/ \E b \in Ids : DeleteBlm(b, FALSE)
    \/ \E b \in Ids : EditBlm(b)

SpecBlm == Init /\ [][NextBlm]_vars

\* The two roles of a beam: direct writes to ghost_count and ghost_idx
\* next to the methods that read or assign them, on beams whose btype may
\* or may not be one the blm getter recognizes.
MaxRoleBeams == 2
\* ghost_count / ghost_idx values the client writes range over 0 .. MaxIdx.
MaxIdx == 1

NextRole ==
    \/ /\ Room(MaxRoleBeams)
       /\ \E g \in BOOLEAN, t \in {"Gaussian", "Gaussian_map"} :
             Construct([ghost |-> g, btype |-> t])
    \/ /\ Room(MaxRoleBeams)
       /\ \E b \in Ids : CreateGhost(b, NoKw)
    \/ \E b \in Ids, n \in 0 .. MaxIdx : SetGhostCount(b, n)
    \/ \E b \in Ids, v \in 0 .. MaxIdx : SetGhostIdx(b, v)
    \/ \E b \in Ids, p \in Ids \cup {0} : ReuseBlm(b, p)
    \/ \E b \in Ids : DeleteBlm(b, TRUE)

SpecRole == Init /\ [][NextRole]_vars

\* Construction and create_ghost over the constructor's keywords: one
\* directly constructed beam and the ghosts made from it, with overrides
\* that the constructor accepts and overrides that it rejects.
MaxCopyParents == 1
MaxCopyBeams == 3

CopyFwhmArgs == {None, Some(<<0, 1>>), Some(<<43, 1>>), Some(<<-43, 1>>)}
Files == {None, Some("po.npy")}

\* Overrides passed to create_ghost; lmax=None and the keyword `colour`
\* make Beam(**ghost_opts) raise.
CopyKw == {NoKw, [az |-> 1], [amplitude |-> 2], [ghost |-> FALSE],
           [po_file |-> Some("ghost.npy")], [lmax |-> None], [colour |-> 0]}

NextCopy ==
    \/ /\ Room(MaxCopyParents)
       /\ \E l \in -1 .. MaxL, f \in CopyFwhmArgs, z \in 0 .. 1, a \in 1 .. 2,
             po \in Files :
             Construct([lmax |-> Some(l), fwhm |-> f, az |-> z, amplitude |-> a,
                        po_file |-> po])
    \/ /\ Room(MaxCopyBeams)
       /\ \E b \in Ids, kw \in CopyKw : CreateGhost(b, kw)

SpecCopy == Init /\ [][NextCopy]_vars

\* Detector construction over the loading arguments.
MaxPower == 2

Sites == {None, Some("atacama")}
PatmArgs == {None} \cup {Some(p) : p \in 0 .. MaxPower}

NextDet ==
    \E bound \in BOOLEAN, loading \in 1 .. MaxPower, st \in Sites,
       atm \in PatmArgs, opt \in 0 .. MaxPower, cmb \in 3 .. 4, oe \in 4 .. 5 :
        ConstructDetector([bound |-> bound, loading |-> loading],
                          [DetectorDefaults EXCEPT !.site = st, !.P_atm = atm,
                                                   !.P_opt = opt, !.P_cmb = cmb,
                                                   !.oe = oe])

SpecDet == Init /\ [][NextDet]_vars

-----------------------------------------------------------------------------
(* Properties.                                                             *)

IsParent(bs, b) == bs[b].ghosts # None
GhostsOf(bs, b) == Range(Get(bs[b].ghosts))
Recognized == {"Gaussian", "PO", "EG"}

\* C1: a write of v to `dead` on a non-ghost beam leaves dead = v on the
\* beam and on every beam in its ghost list; a write to `dead` on a ghost
\* sets that ghost's flag and leaves the flag of every other beam (its
\* parent and its siblings among them) as it was.
C1_DeadPropagates ==
    [][last'.op = "set_dead" =>
        LET b == last'.self
            v == Get(last'.args)
        IN  /\ beams'[b].dead = v
            /\ ~beams[b].ghost =>
                 \A g \in GhostsOf(beams, b) : beams'[g].dead = v
            /\ beams[b].ghost =>
                 \A i \in Ids \ {b} : beams'[i].dead = beams[i].dead]_vars

\* C1 witness: dead = TRUE was written on a parent of two ghosts, and both
\* ghosts report dead.
C1_Witness ==
    /\ last.op = "set_dead"
    /\ last.args = Some(TRUE)
    /\ ~beams[last.self].ghost
    /\ Len(Get(beams[last.self].ghosts)) = 2
    /\ \A g \in GhostsOf(beams, last.self) : beams[g].dead

\* C2: every non-ghost beam has ghost_count = length of its ghost list
\* (0 after construction); a successful create_ghost adds exactly one Beam,
\* appends it at the end of the parent's list with ghost_idx = the parent's
\* ghost_count before the call, and raises ghost_count by one; no step
\* (create_ghost, reuse_blm, delete_blm, dead write) lowers a ghost_count.
C2_GhostCount ==
    [][/\ \A b \in DOMAIN beams' :
            IsParent(beams', b) =>
               beams'[b].ghost_count = Some(Len(Get(beams'[b].ghosts)))
       /\ \A b \in Ids :
            beams[b].ghost_count # None =>
               /\ beams'[b].ghost_count # None
               /\ Get(beams'[b].ghost_count) >= Get(beams[b].ghost_count)
       /\ (last'.op = "create_ghost" /\ last'.err = "none") =>
            LET b == last'.self
                n == Len(beams) + 1
                k == Get(beams[b].ghost_count)
            IN  /\ Len(beams') = n
                /\ Get(beams'[b].ghosts) = Append(Get(beams[b].ghosts), n)
                /\ beams'[n].ghost
                /\ beams'[n].ghost_idx = Some(k)
                /\ beams'[b].ghost_count = Some(k + 1)]_vars

\* C2 witness: the second create_ghost on a parent has returned; its two
\* ghosts carry ghost_idx 0 and 1 and ghost_count is 2.
C2_Witness ==
    /\ last.op = "create_ghost"
    /\ last.err = "none"
    /\ beams[last.self].ghost_count = Some(2)
    /\ LET gs == Get(beams[last.self].ghosts)
       IN  /\ Len(gs) = 2
           /\ beams[gs[1]].ghost_idx = Some(0)
           /\ beams[gs[2]].ghost_idx = Some(1)

\* C3 (as claimed): in every reachable state every beam has mmax <= lmax,
\* and a beam constructed with mmax unset has mmax = lmax.
C3_MmaxLeLmax ==
    /\ \A b \in Ids : beams[b].mmax <= beams[b].lmax
    /\ (last.op = "construct" /\ last.err = "none" /\ last.args.mmax = None) =>
          beams[last.self].mmax = beams[last.self].lmax

\* C4 (as claimed): Beam(fwhm=f, lmax=None) with f non-zero succeeds and
\* stores lmax = floor(1.4 * 2 pi / radians(f / 60)).
C4_LmaxFromFwhm ==
    (/\ last.op = "construct"
     /\ last.args.lmax = None
     /\ ~Falsy(last.args.fwhm)) =>
        /\ last.err = "none"
        /\ beams[last.self].lmax = LmaxFromFwhm(Get(last.args.fwhm))

\* fwhm = degrees(1.4 * 2 pi / lmax) * 60, as an equation between
\* rationals: fwhm * lmax = 1.4 * 360 * 60.
FwhmDerivedFrom(fwhm, lmax) == fwhm[1] * lmax = NyquistArcmin * fwhm[2]

\* C5 (as claimed): Beam(lmax=l) with fwhm unset succeeds for every
\* integer l, negative and zero included, and stores
\* fwhm = degrees(1.4 * 2 pi / lmax) * 60 for the stored lmax.
C5_FwhmFromLmax ==
    (/\ last.op = "construct"
     /\ last.args.lmax # None
     /\ last.args.fwhm = None) =>
        /\ last.err = "none"
        /\ beams[last.self].lmax = Max(Get(last.args.lmax), 0)
        /\ FwhmDerivedFrom(beams[last.self].fwhm, beams[last.self].lmax)

\* Steps that neither invalidate nor overwrite the cache of beam b.
KeepsCache(l, b) ==
    \/ l.op \in {"construct", "blm_get", "set_btype", "edit"}
    \/ l.op = "reuse_blm" /\ l.self # b

Seen(bs, hp, b) == hp[Get(bs[b].blm)]

\* C8: after a successful self.reuse_blm(partner) both beams hold the same
\* array object; no array was allocated and no generator or loader invoked
\* other than by the partner's own lazy read; and an in-place edit made
\* right after through either beam is seen through both.
C8_ReuseAliases ==
    [][/\ (last'.op = "reuse_blm" /\ last'.err = "none") =>
            LET b == last'.self
                p == last'.partner
            IN  /\ beams'[b].blm # None
                /\ beams'[b].blm = beams'[p].blm
                /\ \A i \in Range(last'.gen) : i = p
                /\ Len(heap') = Len(heap) + Len(last'.gen)
                /\ beams[p].blm # None =>
                      /\ last'.gen = <<>>
                      /\ beams'[b].blm = beams[p].blm
       /\ (/\ last.op = "reuse_blm" /\ last.err = "none"
           /\ last'.op = "edit" /\ last'.self \in {last.self, last.partner}) =>
            /\ Seen(beams', heap', last.self) = Seen(beams', heap', last.partner)
            /\ Seen(beams', heap', last.self).edits
                  = Seen(beams, heap, last.self).edits + 1
            /\ Seen(beams', heap', last.partner).edits
                  = Seen(beams, heap, last.partner).edits + 1]_vars

\* C8 witness: reuse_blm between two different beams has returned and both
\* hold the array the partner had cached.
C8_Witness ==
    /\ last.op = "reuse_blm"
    /\ last.err = "none"
    /\ last.self # last.partner
    /\ last.gen = <<>>
    /\ beams[last.self].blm # None
    /\ beams[last.self].blm = beams[last.partner].blm

\* C9 (as claimed): after a successful self.reuse_blm(partner), self has
\* the partner's btype, lmax, mmax and amplitude.
C9_ReuseCopiesParams ==
    (last.op = "reuse_blm" /\ last.err = "none") =>
        LET b == beams[last.self]
            p == beams[last.partner]
        IN  /\ b.btype = p.btype
            /\ b.lmax = p.lmax
            /\ b.mmax = p.mmax
            /\ b.amplitude = p.amplitude

\* C10: create_ghost() on a ghost raises RuntimeError and changes nothing:
\* no Beam is built or attached and every field of every beam is as before.
C10_GhostCannotHaveGhosts ==
    [][(last'.op = "create_ghost" /\ beams[last'.self].ghost) =>
          /\ last'.err = "RuntimeError"
          /\ beams' = beams
          /\ heap' = heap]_vars

\* C10 witness: create_ghost was refused on a ghost that holds a cached
\* array and is attached to a parent.
C10_Witness ==
    /\ last.op = "create_ghost"
    /\ last.err = "RuntimeError"
    /\ beams[last.self].ghost
    /\ beams[last.self].blm # None
    /\ \E b \in Ids : IsParent(beams, b) /\ last.self \in GhostsOf(beams, b)

\* C11: in every reachable state a beam has a ghost list and a
\* ghost_count exactly when it is no ghost, and a ghost_idx exactly when it
\* is a ghost; a write to ghost_count on a ghost, and a write to ghost_idx
\* on a beam that is no ghost, raises an error and leaves the beam (and
\* every other beam) as it was.
C11_RoleExclusive ==
    [][/\ \A b \in DOMAIN beams' :
            /\ (beams'[b].ghosts # None) <=> ~beams'[b].ghost
            /\ (beams'[b].ghost_count # None) <=> ~beams'[b].ghost
            /\ (beams'[b].ghost_idx # None) <=> beams'[b].ghost
       /\ (last'.op = "set_ghost_count" /\ beams[last'.self].ghost) =>
            /\ last'.err # "none"
            /\ beams' = beams
       /\ (last'.op = "set_ghost_idx" /\ ~beams[last'.self].ghost) =>
            /\ last'.err # "none"
            /\ beams' = beams]_vars

\* C11 witness: a write to ghost_count was refused on a ghost that is
\* attached to a parent, and the ghost still has no ghost_count.
C11_Witness ==
    /\ last.op = "set_ghost_count"
    /\ last.err # "none"
    /\ beams[last.self].ghost
    /\ beams[last.self].ghost_count = None
    /\ \E b \in Ids : IsParent(beams, b) /\ last.self \in GhostsOf(beams, b)

\* The constructor fields create_ghost is to hand on, other than the
\* resolution parameters.
PlainFields == {"az", "el", "polang", "pol", "btype", "dead", "amplitude",
                "po_file", "eg_file", "cross_pol_file"}

\* C12 (as claimed): after a successful create_ghost(**overrides) the new
\* ghost has ghost = True (even under ghost=False), every overridden field
\* at its override, and every other constructor field (az, el, polang,
\* pol, btype, fwhm, lmax, mmax, dead, amplitude, po_file, eg_file,
\* cross_pol_file) equal to the parent's.
C12_GhostCopiesParent ==
    (last.op = "create_ghost" /\ last.err = "none") =>
        LET p == beams[last.self]
            g == beams[Len(beams)]
            kw == last.args
        IN  /\ g.ghost = TRUE
            /\ \A f \in PlainFields :
                  g[f] = IF f \in DOMAIN kw THEN kw[f] ELSE p[f]
            /\ \A f \in {"fwhm", "lmax", "mmax"} \ DOMAIN kw : g[f] = p[f]

\* C13 (as claimed): delete_blm(del_ghosts_blm) returns without raising on
\* every beam, ghost or not, with or without a cached array and for both
\* values of the flag; afterwards the beam holds no array, and when the
\* flag is set no beam in its ghost list holds one.
C13_DeleteNeverRaises ==
    last.op = "delete_blm" =>
        /\ last.err = "none"
        /\ beams[last.self].blm = None
        /\ (Get(last.args) /\ IsParent(beams, last.self)) =>
              \A g \in GhostsOf(beams, last.self) : beams[g].blm = None

\* C14 (as claimed): `del b.blm` leaves the beam without a cached array
\* and raises no error, whether or not an array was cached.
C14_DelBlmSilent ==
    last.op = "blm_del" =>
        /\ last.err = "none"
        /\ beams[last.self].blm = None

\* C14 (amended): `del b.blm` on a beam with a cached array drops it,
\* changes nothing else and raises nothing; on a beam with nothing cached
\* it raises AttributeError and changes nothing (it is delete_blm that
\* swallows this error).
C14_DelBlmRaisesWhenEmpty ==
    [][last'.op = "blm_del" =>
         LET b == last'.self IN
         /\ heap' = heap
         /\ IF beams[b].blm # None
            THEN /\ last'.err = "none"
                 /\ beams' = [beams EXCEPT ![b].blm = None]
            ELSE /\ last'.err = "AttributeError"
                 /\ beams' = beams]_vars

\* C14 witness: `del b.blm` has raised AttributeError on a beam with
\* nothing cached, while another beam holds an array.
C14_Witness ==
    /\ last.op = "blm_del"
    /\ last.err = "AttributeError"
    /\ beams[last.self].blm = None
    /\ \E i \in Ids : beams[i].blm # None

C16_DetectorLoading ==
    last.op = "detector" =>
        IF last.args.site = None /\ last.args.P_atm = None
        THEN last.err = "ValueError"
        ELSE /\ last.err = "none"
             /\ last.args.site = None =>
                   LET d == Get(last.ret) IN
                   /\ d.P_atm = Get(last.args.P_atm)
                   /\ d.P_photon = d.oe * (d.P_atm + d.P_cmb + d.P_opt)

\* C17 (as claimed): in every reachable state, two ghosts of the same
\* parent that have the same ghost_idx and both hold a cached array hold
\* the same array.
C17_SameIdxSameBlm ==
    \A b \in Ids :
        IsParent(beams, b) =>
            \A g1, g2 \in GhostsOf(beams, b) :
                (/\ beams[g1].ghost_idx = beams[g2].ghost_idx
                 /\ beams[g1].blm # None
                 /\ beams[g2].blm # None) =>
                    beams[g1].blm = beams[g2].blm

\* C18 (as claimed): Beam(fwhm=f, lmax=l) with both supplied (neither
\* None) succeeds and derives neither: the stored lmax is max(l, 0) and the
\* stored fwhm is abs(f), for every pair, f = 0 included.
C18_BothSuppliedNoneDerived ==
    (/\ last.op = "construct"
     /\ last.args.lmax # None
     /\ last.args.fwhm # None) =>
        LET f == Get(last.args.fwhm) IN
        /\ last.err = "none"
        /\ beams[last.self].lmax = Max(Get(last.args.lmax), 0)
        /\ beams[last.self].fwhm = <<Abs(f[1]), f[2]>>

\* C19 (as claimed): a reuse_blm that raises (TypeError for a partner that
\* is no Beam, or the error of reading the blm of a partner that has no
\* cached array and an unrecognized btype) leaves self's ghost_idx, cached
\* blm, btype, lmax, mmax and amplitude as they were, also when self and
\* partner are both ghosts.
C19_ReuseAtomic ==
    [][(last'.op = "reuse_blm" /\ last'.err # "none") =>
          LET old == beams[last'.self]
              new == beams'[last'.self]
          IN  /\ new.ghost_idx = old.ghost_idx
              /\ new.blm = old.blm
              /\ new.btype = old.btype
              /\ new.lmax = old.lmax
              /\ new.mmax = old.mmax
              /\ new.amplitude = old.amplitude]_vars

\* C20: a create_ghost that raises (the constructor rejects the override
\* lmax=None or an unknown keyword) changes nothing: the parent's ghost
\* list and ghost_count, and every other field of every beam, are as
\* before.  Hence, failed calls interleaved or not, every beam that is no
\* ghost has ghost_count = length of its ghost list, and the ghost_idx
\* values along the list are 0, 1, 2, ... with none skipped.
C20_CreateGhostAtomic ==
    [][/\ (last'.op = "create_ghost" /\ last'.err # "none") =>
            /\ beams' = beams
            /\ heap' = heap
       /\ \A b \in DOMAIN beams' :
            IsParent(beams', b) =>
               LET gs == Get(beams'[b].ghosts) IN
               /\ beams'[b].ghost_count = Some(Len(gs))
               /\ \A i \in DOMAIN gs : beams'[gs[i]].ghost_idx = Some(i - 1)]_vars

\* C20 witness: create_ghost(lmax=None) has raised on a parent that
\* already has one ghost, and the parent still has ghost_count 1 and that
\* one ghost.
C20_Witness ==
    /\ last.op = "create_ghost"
    /\ last.args = [lmax |-> None]
    /\ last.err = "NameError"
    /\ beams[last.self].ghost_count = Some(1)
    /\ Len(Get(beams[last.self].ghosts)) = 1

=============================================================================
